---- MODULE Spec2Model ----
(***************************************************************************)
(* Model of the `outcome` crate (src/src/lib.rs): the two-variant enum     *)
(* Outcome and its methods, driven by a caller that holds one local        *)
(* Outcome (`let result = ...` in the crate's documentation examples) and  *)
(* calls one method on it per step.  A panic unwinds the caller: after it  *)
(* no further call is made.                                                *)
(***************************************************************************)
EXTENDS Integers, FiniteSets, TLC

\* Values of the generic parameters T and E are the integers 0..MaxVal.
MaxVal == 3

T == 0..MaxVal
E == 0..MaxVal

---------------------------------------------------------------------------
(* The data type *)

Success == "Success"
Failure == "Failure"
Outcome == {Success, Failure}

\* Option<T> and Result<T, E> of the standard library, as tagged records.
Some(x) == [tag |-> "Some", val |-> x]
None == [tag |-> "None"]
Ok(x) == [tag |-> "Ok", val |-> x]
Err(x) == [tag |-> "Err", val |-> x]

---------------------------------------------------------------------------
(* How a call ends: it returns a value, or it panics with a message.       *)
(* `calls` counts the invocations of a closure argument during the call.   *)

Returned(v) == [status |-> "returned", value |-> v, calls |-> 0]
Panicked(m) == [status |-> "panicked", msg |-> m, calls |-> 0]

\* The message of the panic! in or_panic.  A TLA+ string cannot hold the
\* grave accent, so each one of the source's literal is written ' here.
OrPanicMsg == "Called 'Outcome::or_panic(...)' on a 'Failure' value"

\* The message Option::unwrap of the standard library panics with.
UnwrapMsg == "called 'Option::unwrap()' on a 'None' value"

\* The closures F: FnOnce() -> Outcome a caller can pass: `|| Success` and
\* `|| Failure` as in the tests and examples, and a closure whose body
\* panics, which the bound on F admits as well.
ClosurePanicMsg == "explicit panic"
Closures == {[body |-> b] : b \in Outcome \cup {"panic"}}

\* f(): the closure runs once; the call ends as its body ends.
Invoke(f) ==
    IF f.body = "panic"
    THEN [Panicked(ClosurePanicMsg) EXCEPT !.calls = 1]
    ELSE [Returned(f.body) EXCEPT !.calls = 1]

---------------------------------------------------------------------------
(* The methods, each as the code computes it *)

from_bool_swapped(good) == IF good THEN Failure ELSE Success
from_bool(good) == IF good THEN Success ELSE Failure

is_success(self) == self = Success

is_failure(self) == ~is_success(self)

or_none_always(self, ok) == Returned(Some(ok))
or_none_unwrap(self, ok) ==
    IF self = Success THEN Returned(Some(ok)) ELSE Panicked(UnwrapMsg)
or_none(self, ok) ==
    IF self = Success THEN Returned(Some(ok)) ELSE Returned(None)

or_err_swapped(self, good, err) ==
    IF self = Success THEN Returned(Ok(err)) ELSE Returned(Err(good))
or_err(self, good, err) ==
    IF self = Success THEN Returned(Ok(good)) ELSE Returned(Err(err))

or_panic_default(self, good) == Returned(IF self = Success THEN good ELSE 0)
or_panic_unwrap(self, good) ==
    IF self = Success THEN Returned(good) ELSE Panicked(UnwrapMsg)
or_panic(self, good) ==
    IF self = Success THEN Returned(good) ELSE Panicked(OrPanicMsg)

and_as_or(self, outb) ==
    IF self = Success THEN Returned(Success) ELSE Returned(outb)
and(self, outb) ==
    IF self = Success THEN Returned(outb) ELSE Returned(Failure)

or_as_and(self, outb) ==
    IF self = Success THEN Returned(outb) ELSE Returned(Failure)
or(self, outb) ==
    IF self = Success THEN Returned(Success) ELSE Returned(outb)

\* let r = f(); match self { Success => r, Failure => Failure }
and_then_eager(self, f) ==
    IF self = Success \/ Invoke(f).status = "panicked" THEN Invoke(f)
    ELSE [Returned(Failure) EXCEPT !.calls = 1]
and_then(self, f) ==
    IF self = Success THEN Invoke(f) ELSE Returned(Failure)

\* let r = f(); match self { Success => Success, Failure => r }
or_then_eager(self, f) ==
    IF self = Failure \/ Invoke(f).status = "panicked" THEN Invoke(f)
    ELSE [Returned(Success) EXCEPT !.calls = 1]
or_then(self, f) ==
    IF self = Success THEN Returned(Success) ELSE Invoke(f)

---------------------------------------------------------------------------
(* The caller *)

VARIABLES
    result,   \* the caller's local Outcome, the receiver of every method call
    origin,   \* how `result` was made: a variant named directly, or from_bool
    op,       \* the last operation called
    args,     \* its arguments
    ret       \* how it ended

vars == <<result, origin, op, args, ret>>

NoArgs == [none |-> TRUE]

\* A caller whose last call panicked has unwound and calls nothing more.
Running == ret.status = "returned"

Init ==
    /\ result \in Outcome
    /\ origin = [kind |-> "variant"]
    /\ op = "none"
    /\ args = NoArgs
    /\ ret = Returned(result)

\* let result = Success;  /  let result = Failure;
Construct(o) ==
    /\ Running
    /\ result' = o
    /\ origin' = [kind |-> "variant"]
    /\ op' = "construct"
    /\ args' = NoArgs
    /\ ret' = Returned(o)

\* let result = Outcome::from_bool(good);
FromBool(good) ==
    /\ Running
    /\ result' = from_bool(good)
    /\ origin' = [kind |-> "from_bool", good |-> good]
    /\ op' = "from_bool"
    /\ args' = [good |-> good]
    /\ ret' = Returned(result')

\* A method call on `result`, which is Copy and stays as it is.
Method(name, a, r) ==
    /\ Running
    /\ op' = name
    /\ args' = a
    /\ ret' = r
    /\ UNCHANGED <<result, origin>>

IsSuccess == Method("is_success", NoArgs, Returned(is_success(result)))

IsFailure == Method("is_failure", NoArgs, Returned(is_failure(result)))

OrNone(ok) == Method("or_none", [ok |-> ok], or_none(result, ok))

OrErr(good, err) ==
    Method("or_err", [good |-> good, err |-> err], or_err(result, good, err))

OrPanic(good) == Method("or_panic", [good |-> good], or_panic(result, good))

And(outb) == Method("and", [outb |-> outb], and(result, outb))

Or(outb) == Method("or", [outb |-> outb], or(result, outb))

AndThen(f) == Method("and_then", [f |-> f], and_then(result, f))

OrThen(f) == Method("or_then", [f |-> f], or_then(result, f))

Next ==
    \/ \E o \in Outcome : Construct(o)
    \/ \E good \in BOOLEAN : FromBool(good)
    \/ IsSuccess
    \/ IsFailure
    \/ \E ok \in T : OrNone(ok)
    \/ \E good \in T, err \in E : OrErr(good, err)
    \/ \E good \in T : OrPanic(good)
    \/ \E outb \in Outcome : And(outb)
    \/ \E outb \in Outcome : Or(outb)
    \/ \E f \in Closures : AndThen(f)
    \/ \E f \in Closures : OrThen(f)

Spec == Init /\ [][Next]_vars

---------------------------------------------------------------------------
(* Properties *)

\* C1: Success.or_panic(x) returns x; Failure.or_panic(x) panics and returns
\* no value at all, neither x nor a default.
OrPanicContract ==
    op = "or_panic" =>
        IF result = Success
        THEN ret.status = "returned" /\ ret.value = args.good
        ELSE ret.status = "panicked" /\ "value" \notin DOMAIN ret

OrPanicOnFailure ==
    /\ op = "or_panic"
    /\ result = Failure
    /\ args.good > 0
    /\ ret.status = "panicked"

\* C2: o.and_then(f) invokes f if and only if o is Success; on Success the
\* result is what f returned, on Failure it is Failure and f was not invoked.
AndThenLazy ==
    op = "and_then" =>
        /\ (ret.calls = 1) <=> (result = Success)
        /\ ret.calls \in {0, 1}
        /\ (result = Success /\ args.f.body \in Outcome) =>
               (ret.status = "returned" /\ ret.value = args.f.body)
        /\ result = Failure =>
               (ret.status = "returned" /\ ret.value = Failure)

AndThenSkipsClosure ==
    /\ op = "and_then"
    /\ result = Failure
    /\ args.f.body = Success
    /\ ret.calls = 0

\* C3: o.or_then(f) invokes f if and only if o is Failure; on Failure the
\* result is what f returned, on Success it is Success and f was not invoked.
OrThenLazy ==
    op = "or_then" =>
        /\ (ret.calls = 1) <=> (result = Failure)
        /\ ret.calls \in {0, 1}
        /\ (result = Failure /\ args.f.body \in Outcome) =>
               (ret.status = "returned" /\ ret.value = args.f.body)
        /\ result = Success =>
               (ret.status = "returned" /\ ret.value = Success)

OrThenSkipsClosure ==
    /\ op = "or_then"
    /\ result = Success
    /\ args.f.body = Failure
    /\ ret.calls = 0

\* C4: self.and(other) is other when self is Success and Failure when self
\* is Failure: Success only when both are Success.
AndTable ==
    op = "and" =>
        /\ ret.status = "returned"
        /\ ret.value = (IF result = Success THEN args.outb ELSE Failure)
        /\ (ret.value = Success) <=> (result = Success /\ args.outb = Success)

AndOfSuccessAndFailure ==
    /\ op = "and"
    /\ result = Success
    /\ args.outb = Failure
    /\ ret.value = Failure

\* C5: self.or(other) is Success when self is Success and other when self is
\* Failure: Failure only when both are Failure.
OrTable ==
    op = "or" =>
        /\ ret.status = "returned"
        /\ ret.value = (IF result = Success THEN Success ELSE args.outb)
        /\ (ret.value = Failure) <=> (result = Failure /\ args.outb = Failure)

OrOfFailureAndSuccess ==
    /\ op = "or"
    /\ result = Failure
    /\ args.outb = Success
    /\ ret.value = Success

\* C6: from_bool(b).is_success() is b and from_bool(b).is_failure() is the
\* negation of b; on every Outcome exactly one of is_success() and
\* is_failure() is true.
FromBoolRoundTrip ==
    /\ (origin.kind = "from_bool" /\ op = "is_success") =>
           (ret.value = origin.good)
    /\ (origin.kind = "from_bool" /\ op = "is_failure") =>
           (ret.value = ~origin.good)
    /\ op = "is_success" => ret.value # is_failure(result)
    /\ op = "is_failure" => ret.value # is_success(result)

IsFailureOfFromBoolFalse ==
    /\ origin.kind = "from_bool"
    /\ origin.good = FALSE
    /\ op = "is_failure"
    /\ ret.value = TRUE

\* C7: Success.or_none(x) is Some(x), holding exactly x, and
\* Failure.or_none(x) is None.
OrNoneContract ==
    op = "or_none" =>
        /\ ret.status = "returned"
        /\ IF result = Success
           THEN ret.value.tag = "Some" /\ ret.value.val = args.ok
           ELSE ret.value.tag = "None"

OrNoneOnSuccess ==
    /\ op = "or_none"
    /\ result = Success
    /\ args.ok > 0
    /\ ret.value.tag = "Some"

\* C8: Success.or_err(g, e) is Ok(g) and Failure.or_err(g, e) is Err(e); the
\* result never holds the other argument.
OrErrContract ==
    op = "or_err" =>
        /\ ret.status = "returned"
        /\ IF result = Success
           THEN ret.value.tag = "Ok" /\ ret.value.val = args.good
           ELSE ret.value.tag = "Err" /\ ret.value.val = args.err

OrErrOnFailure ==
    /\ op = "or_err"
    /\ result = Failure
    /\ args.good # args.err
    /\ ret.value.tag = "Err"
    /\ ret.value.val # args.good

\* C9 as stated: every operation other than or_panic returns a value on
\* every input, whatever closure and_then or or_then is given.
TotalExceptOrPanic ==
    op # "or_panic" => ret.status = "returned"

\* C9 as amended: every operation other than or_panic, and_then and or_then
\* returns a value on every input; and_then and or_then panic exactly when
\* they invoke a closure that panics, and return a value otherwise.
TotalUnlessClosurePanics ==
    /\ op \notin {"or_panic", "and_then", "or_then"} => ret.status = "returned"
    /\ op \in {"and_then", "or_then"} =>
           ((ret.status = "panicked") <=>
               (ret.calls = 1 /\ args.f.body = "panic"))

ClosurePanicPropagates ==
    /\ op = "and_then"
    /\ result = Success
    /\ args.f.body = "panic"
    /\ ret.status = "panicked"

\* C10 as stated: or_panic on Failure panics with the message
\* "called or_panic on a Failure value".
OrPanicMessageAsClaimed ==
    (op = "or_panic" /\ ret.status = "panicked") =>
        ret.msg = "called or_panic on a Failure value"

\* C10 as amended: or_panic on Failure panics with the literal of the
\* source (grave accents written '), the same whatever the argument.
OrPanicMessageFixed ==
    (op = "or_panic" /\ result = Failure) =>
        /\ ret.status = "panicked"
        /\ ret.msg = "Called 'Outcome::or_panic(...)' on a 'Failure' value"

OrPanicPanicsAtMaxVal ==
    /\ op = "or_panic"
    /\ ret.status = "panicked"
    /\ args.good = MaxVal
    /\ MaxVal > 0

====
